---- MODULE Spec2Model ----
(***************************************************************************)
(* Model of the score board panel of challenge-frontend-rs                 *)
(* (src/apps/scoreboard_app.rs).  One render pass (App::show) is one       *)
(* atomic step of the single threaded egui loop; the spawned fetch tasks   *)
(* finish between render passes.                                           *)
(***************************************************************************)
EXTENDS Integers, Sequences, FiniteSets, TLC

VARIABLES
    self,               \* the ScoreBoardApp struct
    abandoned,          \* primary fetch tasks still running whose handle was overwritten
    abandoned_refresh,  \* refresh tasks still running whose handle was overwritten
    last,               \* what the most recent render pass did (history)
    userActed,          \* has the user changed a parameter or clicked Refresh so far
    autoFetches,        \* primary fetches spawned while userActed is still FALSE
    call,               \* the function application under check: operation, argument, result
    info                \* the ChallengeInfoApp struct

vars == <<self, abandoned, abandoned_refresh, last, userActed, autoFetches, call, info>>

----------------------------------------------------------------------------
(* Bounds *)

MaxAbandoned == 1
MaxAutoFetches == 3
MaxScores == 2

----------------------------------------------------------------------------
(* Data *)

Challenges == {"C2331", "C2332", "None"}
ChallengesDefault == "C2331"

FilterOption == {"All", "UniquePlayers", "UniqueLanguage"}

\* Values of the sort_column string.
SortColumns == {"time", "name"}

StatusCodes == {200, 401, 500}

\* Result<String, Error> of response.text(): the body could not be read, or
\* it is the JSON score list of the requested challenge, or it is other text.
BodyTexts == {"ReadErr", "ScoresJson", "Diag"}

\* What the network hands to one fetch task.
Responses ==
    {[send |-> "Err", status |-> 0, text |-> "ReadErr"]}
    \cup [send : {"Ok"}, status : StatusCodes, text : BodyTexts]

NoResponse == [send |-> "-", status |-> 0, text |-> "-"]

\* Option<Vec<Score>>; a score list is identified by the challenge it was
\* requested for.
NoScores == [some |-> FALSE, for |-> "-"]
SomeScores(c) == [some |-> TRUE, for |-> c]

\* enum FetchResponse
Success(s) == [tag |-> "Success", scores |-> s, text |-> "-"]
Failure(t) == [tag |-> "Failure", scores |-> NoScores, text |-> t]
FailAuth == [tag |-> "FailAuth", scores |-> NoScores, text |-> "-"]
NoResult == [tag |-> "None", scores |-> NoScores, text |-> "-"]

\* Option<Promise<FetchResponse>>.  state is "Pending" while the task runs,
\* "Ready" once it has sent its result, "Panicked" when the task died in an
\* unwrap and will never send one.
NoPromise == [some |-> FALSE, state |-> "-", req |-> "-", resp |-> NoResponse, result |-> NoResult]
SpawnedPromise(c) == [some |-> TRUE, state |-> "Pending", req |-> c, resp |-> NoResponse, result |-> NoResult]

\* Result<RefreshResponse, String> of the refresh task, by what the poll
\* distinguishes: Ok with status "success", Ok with another status, Err.
RefreshOutcomes == {"success", "failed", "error"}

\* Option<Promise<Result<RefreshResponse, String>>>
NoRefreshPromise == [some |-> FALSE, state |-> "-", result |-> "-"]
SpawnedRefreshPromise == [some |-> TRUE, state |-> "Pending", result |-> "-"]

----------------------------------------------------------------------------
(* The fetch task *)

\* serde_json::from_str::<Vec<Score>> on the body text
DecodesAsScores(text) == text = "ScoresJson"

\* The body of the async block of fetch: the outcome for a response, or a
\* panic where the code unwraps an Err.
FetchTask(req, resp) ==
    IF resp.send = "Err"
    THEN [state |-> "Panicked", result |-> NoResult]
    ELSE CASE resp.status = 200 ->
                IF resp.text = "ReadErr" \/ ~DecodesAsScores(resp.text)
                THEN [state |-> "Panicked", result |-> NoResult]
                ELSE [state |-> "Ready", result |-> Success(SomeScores(req))]
           [] resp.status = 401 ->
                [state |-> "Ready", result |-> FailAuth]
           [] OTHER ->
                IF resp.text = "ReadErr"
                THEN [state |-> "Panicked", result |-> NoResult]
                ELSE [state |-> "Ready", result |-> Failure(resp.text)]

----------------------------------------------------------------------------
(* ScoreBoardApp *)

Default ==
    [challenge |-> ChallengesDefault,
     filter |-> "All",
     sort_column |-> "time",
     active_challenge |-> ChallengesDefault,
     active_filter |-> "All",
     active_sort_column |-> "time",
     scores |-> NoScores,
     promise |-> NoPromise,
     token_refresh_promise |-> NoRefreshPromise,
     refresh_token |-> FALSE,
     refresh |-> TRUE]

\* fetch that forgets to clear the stale flag.
fetch_keeps_stale(s) ==
    IF ~s.refresh
    THEN [self |-> s, spawned |-> << >>]
    ELSE [self |-> [s EXCEPT !.scores = NoScores,
                             !.promise = SpawnedPromise(s.challenge)],
          spawned |-> <<s.challenge>>]

\* fetch that leaves the stored scores in place.
fetch_keeps_scores(s) ==
    IF ~s.refresh
    THEN [self |-> s, spawned |-> << >>]
    ELSE [self |-> [s EXCEPT !.refresh = FALSE,
                             !.promise = SpawnedPromise(s.challenge)],
          spawned |-> <<s.challenge>>]

\* fetch that waits while a handle is held.
fetch_unless_in_flight(s) ==
    IF ~s.refresh \/ s.promise.some
    THEN [self |-> s, spawned |-> << >>]
    ELSE [self |-> [s EXCEPT !.refresh = FALSE,
                             !.scores = NoScores,
                             !.promise = SpawnedPromise(s.challenge)],
          spawned |-> <<s.challenge>>]

\* spawned lists the requests handed to spawn_local by the call.
fetch(s) ==
    IF ~s.refresh
    THEN [self |-> s, spawned |-> << >>]
    ELSE [self |-> [s EXCEPT !.refresh = FALSE,
                             !.scores = NoScores,
                             !.promise = SpawnedPromise(s.challenge)],
          spawned |-> <<s.challenge>>]

\* check_for_reload that copies the selection without marking the data stale.
check_for_reload_no_stale(s) ==
    IF \/ s.active_challenge # s.challenge
       \/ s.active_filter # s.filter
       \/ s.active_sort_column # s.sort_column
    THEN [s EXCEPT !.active_challenge = s.challenge,
                   !.active_filter = s.filter,
                   !.active_sort_column = s.sort_column]
    ELSE s

\* check_for_reload that does not compare the sort column.
check_for_reload_ignores_sort(s) ==
    IF \/ s.active_challenge # s.challenge
       \/ s.active_filter # s.filter
    THEN [s EXCEPT !.active_challenge = s.challenge,
                   !.active_filter = s.filter,
                   !.active_sort_column = s.sort_column,
                   !.refresh = TRUE]
    ELSE s

check_for_reload(s) ==
    IF \/ s.active_challenge # s.challenge
       \/ s.active_filter # s.filter
       \/ s.active_sort_column # s.sort_column
    THEN [s EXCEPT !.active_challenge = s.challenge,
                   !.active_filter = s.filter,
                   !.active_sort_column = s.sort_column,
                   !.refresh = TRUE]
    ELSE s

\* Promise::ready
ready(p) == p.some /\ p.state = "Ready"

\* check_fetch_promise that refreshes the token on every outcome but Success.
check_fetch_promise_refresh_on_failure(s) ==
    IF ready(s.promise)
    THEN [self |-> [s EXCEPT !.refresh_token =
                                 IF s.promise.result.tag # "Success" THEN TRUE ELSE @,
                             !.token_refresh_promise =
                                 IF s.promise.result.tag # "Success" THEN SpawnedRefreshPromise ELSE @,
                             !.promise = NoPromise],
          ret |-> s.promise.result,
          refreshes |-> IF s.promise.result.tag # "Success" THEN 1 ELSE 0]
    ELSE [self |-> s, ret |-> NoResult, refreshes |-> 0]

\* ret is the returned Option<FetchResponse>; refreshes counts the calls of
\* refresh::submit_refresh.
check_fetch_promise(s) ==
    IF ready(s.promise)
    THEN [self |-> [s EXCEPT !.refresh_token =
                                 IF s.promise.result.tag = "FailAuth" THEN TRUE ELSE @,
                             !.token_refresh_promise =
                                 IF s.promise.result.tag = "FailAuth" THEN SpawnedRefreshPromise ELSE @,
                             !.promise = NoPromise],
          ret |-> s.promise.result,
          refreshes |-> IF s.promise.result.tag = "FailAuth" THEN 1 ELSE 0]
    ELSE [self |-> s, ret |-> NoResult, refreshes |-> 0]

\* check_refresh_promise that leaves refresh_token set after an Err outcome.
check_refresh_promise_keeps_flag(s) ==
    IF ready(s.token_refresh_promise)
    THEN [s EXCEPT !.refresh =
                       IF s.token_refresh_promise.result = "success" THEN TRUE ELSE @,
                   !.refresh_token =
                       IF s.token_refresh_promise.result = "error" THEN @ ELSE FALSE,
                   !.token_refresh_promise = NoRefreshPromise]
    ELSE s

\* check_refresh_promise that never marks the data stale.
check_refresh_promise_no_refetch(s) ==
    IF ready(s.token_refresh_promise)
    THEN [s EXCEPT !.refresh_token = FALSE,
                   !.token_refresh_promise = NoRefreshPromise]
    ELSE s

\* check_refresh_promise that does not look at the status of an Ok response.
check_refresh_promise_any_ok(s) ==
    IF ready(s.token_refresh_promise)
    THEN [s EXCEPT !.refresh =
                       IF s.token_refresh_promise.result # "error" THEN TRUE ELSE @,
                   !.refresh_token = FALSE,
                   !.token_refresh_promise = NoRefreshPromise]
    ELSE s

check_refresh_promise(s) ==
    IF ready(s.token_refresh_promise)
    THEN [s EXCEPT !.refresh =
                       IF s.token_refresh_promise.result = "success" THEN TRUE ELSE @,
                   !.refresh_token = FALSE,
                   !.token_refresh_promise = NoRefreshPromise]
    ELSE s

\* The side panel of ui: at most one widget is clicked in a render pass.
Inputs ==
    {[kind |-> "none", val |-> "-"], [kind |-> "click", val |-> "-"]}
    \cup [kind : {"challenge"}, val : Challenges]
    \cup [kind : {"filter"}, val : FilterOption]

ui_options(s, in) ==
    CASE in.kind = "challenge" -> [s EXCEPT !.challenge = in.val]
      [] in.kind = "filter" -> [s EXCEPT !.filter = in.val]
      [] in.kind = "click" -> [s EXCEPT !.refresh = TRUE]
      [] OTHER -> s

\* The head of table_ui: poll the primary fetch, store a Success, poll the refresh.
table_ui(s) ==
    LET r == check_fetch_promise(s)
    IN  check_refresh_promise(
            IF r.ret.tag = "Success"
            THEN [r.self EXCEPT !.scores = r.ret.scores]
            ELSE r.self)

\* View::ui
ui(s, in) == table_ui(ui_options(s, in))

\* App::show; the body closure of the window runs only when the window is shown.
show(s, in, shown) ==
    LET f == fetch(check_for_reload(s)).self
    IN  IF shown THEN ui(f, in) ELSE f

----------------------------------------------------------------------------
(* History of a render pass, taken from the calls show makes *)

NoPass ==
    [input |-> "none", fetch_result |-> "None", refreshes |-> 0, refresh_result |-> "None",
     table_filter |-> "-"]

\* input: the widget the user clicked; fetch_result: the outcome the primary
\* poll returned; refreshes: the refresh requests it spawned; refresh_result:
\* the outcome the refresh poll consumed; table_filter: the filter option the
\* table body was built with ("-" when no rows were built).
Pass(s, in, shown) ==
    LET o == ui_options(fetch(check_for_reload(s)).self, in)
        r == check_fetch_promise(o)
    IN  IF ~shown
        THEN NoPass
        ELSE [input |-> in.kind,
              fetch_result |-> r.ret.tag,
              refreshes |-> r.refreshes,
              refresh_result |-> IF ready(r.self.token_refresh_promise)
                                 THEN r.self.token_refresh_promise.result
                                 ELSE "None",
              table_filter |-> IF table_ui(o).scores.some THEN table_ui(o).filter ELSE "-"]

\* The requests the fetch call of a pass starting in s spawns.
Spawns(s) == fetch(check_for_reload(s)).spawned

Running(p) == p.some /\ p.state = "Pending"

\* Tasks whose handle the pass overwrote while they were still running.
DroppedFetches(s, in, shown) ==
    LET c == check_for_reload(s)
    IN  IF fetch(c).spawned # << >> /\ Running(c.promise) THEN 1 ELSE 0

DroppedRefreshes(s, in, shown) ==
    LET o == ui_options(fetch(check_for_reload(s)).self, in)
    IN  IF shown /\ check_fetch_promise(o).refreshes > 0 /\ Running(o.token_refresh_promise)
        THEN 1 ELSE 0

UserActs(s, in, shown) ==
    LET f == fetch(check_for_reload(s)).self
    IN  shown /\ ui_options(f, in) # f

----------------------------------------------------------------------------
(* ChallengeInfoApp (src/apps/challenge_info.rs) *)

\* Option<Getter<String>>
NoGetter == [some |-> FALSE, req |-> "-", state |-> "-"]

\* Challenges::fetcher
fetcher(c) == [some |-> TRUE, req |-> c, state |-> "Pending"]

\* Getter::check_promise, as the text it yields
check_promise(g) ==
    CASE g.state = "Pending" -> "Loading"
      [] g.state = "Ready" -> g.req
      [] OTHER -> "Error"

InfoDefault ==
    [selected_challenge |-> ChallengesDefault,
     active_challenge |-> "None",
     info_fetcher |-> NoGetter,
     instructions |-> "None"]

info_fetch(a) ==
    IF a.active_challenge = a.selected_challenge
    THEN [self |-> a, spawned |-> << >>]
    ELSE [self |-> [a EXCEPT !.active_challenge = a.selected_challenge,
                             !.info_fetcher = fetcher(a.selected_challenge)],
          spawned |-> <<a.selected_challenge>>]

check_info_promise(a) ==
    IF a.info_fetcher.some
    THEN [a EXCEPT !.instructions = check_promise(a.info_fetcher)]
    ELSE a

\* The radio buttons and the Refresh button of the panel.
InfoInputs ==
    {[kind |-> "none", val |-> "-"], [kind |-> "click", val |-> "-"]}
    \cup [kind : {"challenge"}, val : Challenges]

info_ui(a, in) ==
    LET c == check_info_promise(a)
    IN  CASE in.kind = "challenge" -> [c EXCEPT !.selected_challenge = in.val]
          [] in.kind = "click" -> [c EXCEPT !.active_challenge = "None"]
          [] OTHER -> c

info_show(a, in, shown) ==
    LET f == info_fetch(a).self
    IN  IF shown THEN info_ui(f, in) ELSE f

----------------------------------------------------------------------------
(* The rows of the score table (table_ui, body closure) *)

Names == {"a", "b"}
Languages == {"rust", "c"}
Times == {1, 2}

\* scoreboard_db::Score, without the command field
Scores == [name : Names, language : Languages, time_ns : Times]

\* The filters table_ui appends to the builder for a filter option.
TableFilters(filter, sort_column) ==
    (CASE filter = "UniquePlayers" -> <<[kind |-> "UniquePlayers", col |-> "-"]>>
       [] filter = "UniqueLanguage" -> <<[kind |-> "UniquePlayers", col |-> "-"]>>
       [] OTHER -> << >>)
    \o <<[kind |-> "Sort", col |-> sort_column]>>

\* scoreboard_db: stable insertion of x behind the entries that are not later.
RECURSIVE InsertByTime(_, _)
InsertByTime(x, seq) ==
    IF seq = << >> THEN <<x>>
    ELSE IF Head(seq).time_ns <= x.time_ns
         THEN <<Head(seq)>> \o InsertByTime(x, Tail(seq))
         ELSE <<x>> \o seq

RECURSIVE SortByTime(_)
SortByTime(seq) ==
    IF seq = << >> THEN << >>
    ELSE InsertByTime(seq[Len(seq)], SortByTime(SubSeq(seq, 1, Len(seq) - 1)))

\* scoreboard_db: keep the first entry of every player.
RECURSIVE UniquePlayers(_, _)
UniquePlayers(seq, seen) ==
    IF seq = << >> THEN << >>
    ELSE IF Head(seq).name \in seen
         THEN UniquePlayers(Tail(seq), seen)
         ELSE <<Head(seq)>> \o UniquePlayers(Tail(seq), seen \cup {Head(seq).name})

\* scoreboard_db::ScoreBoard::filter: sort, then drop the duplicates.
ScoreBoardFilter(scores, filters) ==
    LET sorted == IF \E i \in 1..Len(filters) : filters[i].kind = "Sort"
                  THEN SortByTime(scores) ELSE scores
    IN  IF \E i \in 1..Len(filters) : filters[i].kind = "UniquePlayers"
        THEN UniquePlayers(sorted, {})
        ELSE sorted

\* The rows table_ui draws for stored scores.
TableRows(scores, filter, sort_column) ==
    ScoreBoardFilter(scores, TableFilters(filter, sort_column))

----------------------------------------------------------------------------
(* Function applications *)

NoCall == [op |-> "none", arg |-> "-", out |-> "-"]

RECURSIVE SeqsUpTo(_, _)
SeqsUpTo(S, n) ==
    IF n = 0 THEN {<< >>}
    ELSE SeqsUpTo(S, n - 1) \cup
         {Append(q, x) : q \in {r \in SeqsUpTo(S, n - 1) : Len(r) = n - 1}, x \in S}

----------------------------------------------------------------------------
(* Steps *)

Init ==
    /\ self = Default
    /\ abandoned = 0
    /\ abandoned_refresh = 0
    /\ last = NoPass
    /\ userActed = FALSE
    /\ autoFetches = 0
    /\ call = NoCall
    /\ info = InfoDefault

\* One render pass.
Show ==
    \E in \in Inputs, shown \in BOOLEAN :
        /\ ~shown => in.kind = "none"
        /\ abandoned + DroppedFetches(self, in, shown) <= MaxAbandoned
        /\ abandoned_refresh + DroppedRefreshes(self, in, shown) <= MaxAbandoned
        /\ self' = show(self, in, shown)
        /\ abandoned' = abandoned + DroppedFetches(self, in, shown)
        /\ abandoned_refresh' = abandoned_refresh + DroppedRefreshes(self, in, shown)
        /\ last' = Pass(self, in, shown)
        /\ userActed' = (userActed \/ UserActs(self, in, shown))
        /\ autoFetches' =
               IF ~userActed /\ Spawns(self) # << >> /\ autoFetches < MaxAutoFetches
               THEN autoFetches + 1
               ELSE autoFetches
        /\ UNCHANGED <<call, info>>

\* The task behind the primary handle gets its response and ends.
FetchTaskCompletes ==
    /\ Running(self.promise)
    /\ \E resp \in Responses :
           LET t == FetchTask(self.promise.req, resp)
           IN  self' = [self EXCEPT !.promise.state = t.state,
                                    !.promise.resp = resp,
                                    !.promise.result = t.result]
    /\ UNCHANGED <<abandoned, abandoned_refresh, last, userActed, autoFetches, call, info>>

\* The task behind the refresh handle ends.
RefreshTaskCompletes ==
    /\ Running(self.token_refresh_promise)
    /\ \E out \in RefreshOutcomes :
           self' = [self EXCEPT !.token_refresh_promise.state = "Ready",
                                !.token_refresh_promise.result = out]
    /\ UNCHANGED <<abandoned, abandoned_refresh, last, userActed, autoFetches, call, info>>

\* A task whose handle was dropped ends; nobody receives its result.
AbandonedFetchCompletes ==
    /\ abandoned > 0
    /\ abandoned' = abandoned - 1
    /\ UNCHANGED <<self, abandoned_refresh, last, userActed, autoFetches, call, info>>

AbandonedRefreshCompletes ==
    /\ abandoned_refresh > 0
    /\ abandoned_refresh' = abandoned_refresh - 1
    /\ UNCHANGED <<self, abandoned, last, userActed, autoFetches, call, info>>

Next ==
    \/ Show
    \/ FetchTaskCompletes
    \/ RefreshTaskCompletes
    \/ AbandonedFetchCompletes
    \/ AbandonedRefreshCompletes

Spec == Init /\ [][Next]_vars

----------------------------------------------------------------------------
(* check_for_reload on every combination of selected and active parameters *)

InitReload ==
    /\ self \in {[Default EXCEPT !.challenge = c, !.filter = f, !.sort_column = k,
                                 !.active_challenge = ac, !.active_filter = af,
                                 !.active_sort_column = ak, !.refresh = r] :
                    c \in Challenges, f \in FilterOption, k \in SortColumns,
                    ac \in Challenges, af \in FilterOption, ak \in SortColumns,
                    r \in BOOLEAN}
    /\ abandoned = 0
    /\ abandoned_refresh = 0
    /\ last = NoPass
    /\ userActed = FALSE
    /\ autoFetches = 0
    /\ call = NoCall
    /\ info = InfoDefault

Reload ==
    /\ self' = check_for_reload(self)
    /\ call' = [op |-> "check_for_reload", arg |-> self, out |-> check_for_reload(self)]
    /\ UNCHANGED <<abandoned, abandoned_refresh, last, userActed, autoFetches, info>>

SpecReload == InitReload /\ [][Reload]_vars

----------------------------------------------------------------------------
(* The table rows for every short score list and filter option *)

InitTable ==
    /\ self = Default
    /\ abandoned = 0
    /\ abandoned_refresh = 0
    /\ last = NoPass
    /\ userActed = FALSE
    /\ autoFetches = 0
    /\ call \in {[op |-> "stored", arg |-> [scores |-> s, filter |-> f], out |-> << >>] :
                    s \in SeqsUpTo(Scores, MaxScores), f \in FilterOption}
    /\ info = InfoDefault

Render ==
    /\ call.op = "stored"
    /\ call' = [call EXCEPT !.op = "table_ui",
                            !.out = TableRows(call.arg.scores, call.arg.filter, self.sort_column)]
    /\ UNCHANGED <<self, abandoned, abandoned_refresh, last, userActed, autoFetches, info>>

SpecTable == InitTable /\ [][Render]_vars

----------------------------------------------------------------------------
(* The challenge info panel *)

\* One render pass of the panel; call records the widget clicked in it.
InfoShow ==
    \E in \in InfoInputs, shown \in BOOLEAN :
        /\ ~shown => in.kind = "none"
        /\ info' = info_show(info, in, shown)
        /\ call' = [op |-> "info_show", arg |-> in.kind, out |-> info_fetch(info).spawned]
        /\ UNCHANGED <<self, abandoned, abandoned_refresh, last, userActed, autoFetches>>

\* The task of the getter ends, with the text or with an error.
InfoTaskCompletes ==
    /\ info.info_fetcher.some
    /\ info.info_fetcher.state = "Pending"
    /\ \E st \in {"Ready", "Failed"} : info' = [info EXCEPT !.info_fetcher.state = st]
    /\ UNCHANGED <<self, abandoned, abandoned_refresh, last, userActed, autoFetches, call>>

NextInfo == InfoShow \/ InfoTaskCompletes

SpecInfo == Init /\ [][NextInfo]_vars

----------------------------------------------------------------------------
(* Properties *)

InFlightPrimary == (IF Running(self.promise) THEN 1 ELSE 0) + abandoned

InFlightRefresh == (IF Running(self.token_refresh_promise) THEN 1 ELSE 0) + abandoned_refresh

ParametersUnchanged ==
    /\ self.challenge = self.active_challenge
    /\ self.filter = self.active_filter
    /\ self.sort_column = self.active_sort_column

\* C1: a token refresh is never started while another token refresh is still
\* in flight, so at most one refresh task runs at any time.
C1_NoConcurrentRefresh == InFlightRefresh <= 1

\* C2: as long as the user has done nothing, at most two primary fetches are
\* ever spawned (the first one and the one refetch after a token refresh); a
\* 401 on the refetch does not start the cycle again.
C2_AutoRecoveryAtMostOnce == ~userActed => autoFetches <= 2

\* C3: at most one primary fetch is in flight at any time; fetch never
\* spawns a request while an earlier one is still running.
C3_OnePrimaryInFlight == InFlightPrimary <= 1

\* C4: while a token refresh is pending no primary fetch is spawned, so no
\* primary handle exists while refresh_token is set (the handle of the fetch
\* that failed was cleared when refresh_token was set).
C4_NoFetchWhileRefreshPending == self.refresh_token => ~self.promise.some

\* C5: as long as the user has neither changed a parameter nor clicked
\* Refresh, at most one primary fetch is in flight.
C5_OnePrimaryInFlightUnchanged == ~userActed => InFlightPrimary <= 1

C5_Witness ==
    /\ ~userActed
    /\ autoFetches = 2
    /\ Running(self.promise)
    /\ last.fetch_result = "None"

\* C6: once a refresh outcome with status "success" has been consumed, the
\* next render pass spawns exactly one primary fetch, for the challenge that
\* is active in that pass, and leaves the stale flag clear.
C6_RefetchAfterRefresh ==
    last.refresh_result = "success" =>
        LET c == check_for_reload(self)
            f == fetch(c)
        IN  /\ f.spawned = <<c.active_challenge>>
            /\ f.self.promise = SpawnedPromise(c.active_challenge)
            /\ ~f.self.refresh

C6_Witness ==
    /\ last.refresh_result = "success"
    /\ ~self.token_refresh_promise.some
    /\ self.challenge # self.active_challenge

C8_RefreshOnlyOnFailAuth ==
    /\ last.fetch_result = "FailAuth" =>
           /\ last.refreshes = 1
           /\ self.refresh_token
           /\ self.token_refresh_promise.some
    /\ last.fetch_result \in {"Success", "Failure", "None"} => last.refreshes = 0

C8_Witness ==
    /\ last.fetch_result = "FailAuth"
    /\ last.refreshes = 1
    /\ Running(self.token_refresh_promise)

\* C9: after a render pass in which Refresh was clicked, the next render pass
\* spawns a primary fetch, whatever the parameters and whatever is in flight.
C9_RefreshForcesFetch == last.input = "click" => Spawns(self) # << >>

C9_Witness ==
    /\ last.input = "click"
    /\ ParametersUnchanged
    /\ Running(self.promise)
    /\ self.refresh_token

\* C10: a primary fetch attempt whose request failed in transport, or whose
\* status 200 body does not decode as a score list, ends with a Failure
\* outcome that the poll can return.
C10_FailedAttemptEndsInFailure ==
    (/\ self.promise.some
     /\ \/ self.promise.resp.send = "Err"
        \/ self.promise.resp.send = "Ok" /\ self.promise.resp.status = 200
              /\ ~DecodesAsScores(self.promise.resp.text))
    => ready(self.promise) /\ self.promise.result.tag = "Failure"

\* C11: the fetch task maps every response by its status: 200 with a body
\* that decodes gives Success with the decoded scores, 401 gives FailAuth
\* whatever the body (also when it could not be read), any other status
\* gives Failure carrying the body text or the body read error text.
C11_StatusMapping ==
    (self.promise.some /\ self.promise.resp.send = "Ok") =>
        LET p == self.promise
        IN  /\ (p.resp.status = 200 /\ DecodesAsScores(p.resp.text)) =>
                   ready(p) /\ p.result = Success(SomeScores(p.req))
            /\ p.resp.status = 401 =>
                   ready(p) /\ p.result = FailAuth
            /\ p.resp.status \notin {200, 401} =>
                   ready(p) /\ p.result = Failure(p.resp.text)

\* C12: check_for_reload raises the stale flag and copies the selection into
\* the active copy exactly when the two differ in a field, changes nothing
\* when they are equal, and a second call changes nothing.
C12_ReloadExactAndIdempotent ==
    call.op = "check_for_reload" =>
        LET a == call.arg
            o == call.out
            differs == \/ a.active_challenge # a.challenge
                       \/ a.active_filter # a.filter
                       \/ a.active_sort_column # a.sort_column
        IN  /\ differs => o = [a EXCEPT !.active_challenge = a.challenge,
                                        !.active_filter = a.filter,
                                        !.active_sort_column = a.sort_column,
                                        !.refresh = TRUE]
            /\ ~differs => o = a
            /\ self = o
            /\ o.active_challenge = o.challenge
            /\ o.active_filter = o.filter
            /\ o.active_sort_column = o.sort_column
            /\ check_for_reload(o) = o

C12_Witness ==
    /\ call.op = "check_for_reload"
    /\ call.arg.active_sort_column # call.arg.sort_column
    /\ call.arg.active_challenge = call.arg.challenge
    /\ call.arg.active_filter = call.arg.filter
    /\ ~call.arg.refresh
    /\ call.out.refresh

\* C13: when scores are stored, the stale flag is clear and no primary fetch
\* is running, the stored scores come from a request for the active challenge.
C13_ScoresMatchActive ==
    (self.scores.some /\ ~self.refresh /\ ~Running(self.promise)) =>
        self.scores.for = self.active_challenge

C13_Witness ==
    /\ self.scores.some
    /\ ~self.refresh
    /\ ~self.promise.some
    /\ self.active_challenge # ChallengesDefault
    /\ self.scores.for = self.active_challenge

\* C14: while a token refresh is pending (refresh_token set) no scores are
\* stored.
C14_NoScoresWhileRefreshPending == self.refresh_token => ~self.scores.some

\* C15: with filter option UniqueLanguage the rows hold exactly one entry for
\* every language of the stored scores.
C15_UniqueLanguageByLanguage ==
    (call.op = "table_ui" /\ call.arg.filter = "UniqueLanguage") =>
        LET rows == call.out
            stored == call.arg.scores
        IN  /\ {rows[i].language : i \in 1..Len(rows)}
                   = {stored[i].language : i \in 1..Len(stored)}
            /\ \A i, j \in 1..Len(rows) : rows[i].language = rows[j].language => i = j

\* C16: a consumed Failure outcome starts no token refresh and the next
\* render pass spawns no primary fetch unless the user clicked a widget;
\* polling a ready Failure changes nothing but the handle.
C16_FailureNotRetried ==
    /\ last.fetch_result = "Failure" =>
           /\ last.refreshes = 0
           /\ self.refresh => last.input = "click"
           /\ Spawns(self) # << >> => last.input # "none"
    /\ (ready(self.promise) /\ self.promise.result.tag = "Failure") =>
           check_fetch_promise(self).self = [self EXCEPT !.promise = NoPromise]

\* C17: the filter the table rows of a render pass are built with is the
\* active filter of that pass, not a selection edited in the same pass.
C17_TableUsesActiveFilter ==
    last.table_filter # "-" => last.table_filter = self.active_filter

\* C18: after a render pass of the challenge info panel in which Refresh was
\* clicked, the fetch of the next render pass does not return early, whatever
\* challenge is selected.
C18_InfoRefreshForcesFetch ==
    (call.op = "info_show" /\ call.arg = "click") => info_fetch(info).spawned # << >>

\* C19: refresh_token is set exactly when token_refresh_promise holds a handle.
C19_FlagAgreesWithHandle == self.refresh_token <=> self.token_refresh_promise.some

C19_Witness ==
    /\ last.refresh_result = "error"
    /\ ~self.refresh_token
    /\ ~self.token_refresh_promise.some

\* C20: while promise holds a handle no scores are stored.
C20_NoScoresWhileFetching == self.promise.some => ~self.scores.some

C20_Witness ==
    /\ Running(self.promise)
    /\ self.promise.req = "C2332"
    /\ ~self.scores.some
    /\ userActed

TypeOK ==
    /\ self.challenge \in Challenges
    /\ self.filter \in FilterOption
    /\ self.refresh \in BOOLEAN
    /\ self.refresh_token \in BOOLEAN
    /\ abandoned \in 0..MaxAbandoned
    /\ abandoned_refresh \in 0..MaxAbandoned
    /\ autoFetches \in 0..MaxAutoFetches

====
